---- MODULE Spec2Model ----
(***************************************************************************)
(* A model of rustvent: the synchronous Event (src/rustvent/src/lib.rs)    *)
(* and the thread-per-subscriber EventAsync                                *)
(* (src/rustvent/src/event_async.rs).                                      *)
(*                                                                         *)
(* Spec: a program constructs one of the two structs and drives it through *)
(* its public operations; for the EventAsync the caller thread and the     *)
(* threads it spawns take their steps in every order.                      *)
(***************************************************************************)
EXTENDS Integers, Sequences, FiniteSets, TLC

\* ------------------------------------------------------------------ bounds

\* Number of calls (subscribe*, unsubscribe*, notify) made on one Event in
\* one behaviour.
MaxCalls == 5
\* Number of mutating subscribers the caller holds a guard on at a time.
MaxHeld == 1
\* Number of calls made on one EventAsync in one behaviour.
MaxAsyncCalls == 4
\* Number of calls made on the Events of one struct in one behaviour.
MaxLogicCalls == 3

\* ------------------------------------------------------- program constants

\* MutSubscriber { mutate_field_int: 10 } and update_mut's += 10.
InitialField == 10
UpdateDelta == 10

\* Identities of the subscriber instances (Rc / Arc pointers) and of the
\* closures handed to subscribe_as_fn.
Subs == {"s1", "s2", "s3"}
Muts == {"m1", "m2"}
Fns == {"f1"}
ASubs == {"a1", "a2"}
AFns == {"g1", "g2"}

\* The contents of each subscriber instance as constructed: two instances of
\* one struct with equal fields are equal in value and distinct in identity
\* (SomeSubscriber {}, AnotherSubscriber {}, MutSubscriber { .. }).
Contents == [s1 |-> "SomeSubscriber", s2 |-> "SomeSubscriber",
             s3 |-> "AnotherSubscriber",
             m1 |-> "MutSubscriber", m2 |-> "MutSubscriber",
             a1 |-> "SomeSubscriber", a2 |-> "SomeSubscriber"]

\* enum Notify and enum Clear.
NotifyValues == {"All", "OnlySubscribers", "OnlySubscribersMut", "OnlyFnSubscribers"}
ClearValues == {"All", "OnlySubscribers", "OnlySubscribersMut", "OnlyFuncSubscribers", "None"}
\* The variants EventAsync::notify and EventAsync::try_clear have an arm
\* for; for the others the match defines no outcome ("no_arm").
AsyncNotifyValues == {"All", "OnlySubscribers", "OnlyFnSubscribers"}
AsyncClearValues == {"All", "OnlySubscribers", "OnlyFuncSubscribers", "None"}

\* struct ProcessBusinessLogic { process_completed: Event, process_error: Event }
\* and the instances its tests subscribe.
EventFields == {"process_completed", "process_error"}
LSubs == {"s1", "s2"}
LMuts == {"m1"}
LFns == {"f1"}

\* impl Default for EventConfig.
DefaultConfig == [subscribers_to_notify |-> "All",
                  clear_subscribers_after_notification |-> "All"]

VARIABLES
    \* which struct the program constructs and drives
    object,
    \* struct Event
    subscribers, subscribers_mut, fn_subscribers,
    times_subscribers_notified, times_subscribers_mut_notified,
    times_func_subscribers_notified, config,
    \* the mutating subscribers' own state, and the RefCell borrows the
    \* caller held on them across its last notify()
    field, held,
    \* the RefMut guards the dispatcher held inside the last call (history)
    guards,
    \* observation: the last call on the Event, the updates it made, the
    \* number of calls so far, and the number of notify() calls since the
    \* last subscribe call with the counters as that call left them
    op, invoked, calls, streak,
    \* observation: the orders in which the entries now in subscribers and
    \* in subscribers_mut can have been registered, given the subscribe and
    \* unsubscribe calls made (one order, unless a handle had two entries
    \* when it was unsubscribed)
    registered,
    \* struct EventAsync
    a_subscribers, a_fn_subscribers, a_times_subscribers_notified,
    a_times_func_subscribers_notified, a_config,
    \* the caller thread inside an EventAsync call, and the spawned threads
    pc, call, phase, units, handles, a_pre, a_calls,
    \* a struct with two Event fields and #[derive(Event)]: its Events by
    \* field name, the state of the mutating subscribers registered with
    \* them, the last call made on the struct and the number of calls
    logic, l_field, l_op, l_calls

evars == <<subscribers, subscribers_mut, fn_subscribers,
           times_subscribers_notified, times_subscribers_mut_notified,
           times_func_subscribers_notified, config, field, held, guards,
           op, invoked, calls, streak, registered>>
avars == <<a_subscribers, a_fn_subscribers, a_times_subscribers_notified,
           a_times_func_subscribers_notified, a_config,
           pc, call, phase, units, handles, a_pre, a_calls>>
lvars == <<logic, l_field, l_op, l_calls>>
vars == <<object, evars, avars, lvars>>

\* ----------------------------------------------------------------- helpers

\* Mutant of swap_remove: Vec::remove, which shifts the later entries down.
swap_remove_shift(s, index) ==
    [i \in 1..(Len(s) - 1) |-> IF i < index THEN s[i] ELSE s[i + 1]]

\* Mutant of swap_remove: the last element is dropped, whatever the index.
swap_remove_pop(s, index) == SubSeq(s, 1, Len(s) - 1)

\* Vec::swap_remove: the element at index is replaced by the last one.
swap_remove(s, index) ==
    [j \in 1..(Len(s) - 1) |-> IF j = index THEN s[Len(s)] ELSE s[j]]

\* Mutant of position: the closure compares the instances' contents.
position_by_contents(s, h) ==
    IF \E i \in 1..Len(s) : Contents[s[i]] = Contents[h]
    THEN CHOOSE i \in 1..Len(s) :
            /\ Contents[s[i]] = Contents[h]
            /\ \A j \in 1..(i - 1) : Contents[s[j]] # Contents[h]
    ELSE 0

\* Iterator::position with a pointer-equality closure: the first index whose
\* entry is the given instance, 0 for None.
position(s, h) ==
    IF \E i \in 1..Len(s) : s[i] = h
    THEN CHOOSE i \in 1..Len(s) : s[i] = h /\ \A j \in 1..(i - 1) : s[j] # h
    ELSE 0

\* ------------------------------------------------------------ struct Event

\* RefCell borrow state of each mutating subscriber as the caller leaves it:
\* "none", or a Ref ("shared") or RefMut ("mut") guard the caller holds.
BorrowStates ==
    {b \in [Muts -> {"none", "shared", "mut"}] :
        Cardinality({m \in Muts : b[m] # "none"}) <= MaxHeld}
NoBorrow == [m \in Muts |-> "none"]

\* The RefMut guards the dispatcher holds inside a call: the subscribers it
\* holds one on now, and the most it has held at once since the call began.
NoGuard == [now |-> {}, most |-> 0]

\* The Event and its subscribers' state as one value, as a call finds it.
\* borrowed is the guards the caller holds across the call, invoked the
\* list of update / update_mut / closure calls the current
\* call has made, outcome turns to "panic" when the call unwinds.
Ev == [subscribers |-> subscribers,
       subscribers_mut |-> subscribers_mut,
       fn_subscribers |-> fn_subscribers,
       times_subscribers_notified |-> times_subscribers_notified,
       times_subscribers_mut_notified |-> times_subscribers_mut_notified,
       times_func_subscribers_notified |-> times_func_subscribers_notified,
       field |-> field,
       borrowed |-> NoBorrow,
       guards |-> NoGuard,
       invoked |-> <<>>,
       outcome |-> "ok"]

\* SubscriberMut::update_mut of the MutSubscriber: mutate_field_int += 10.
\* (A u8: the bounds keep it far below 256.)
update_mut(v) == v + UpdateDelta

contains(e, subscriber) == position(e.subscribers, subscriber)

contains_mut(e, subscriber) == position(e.subscribers_mut, subscriber)

\* Mutant of notify_subscribers: the counter counts subscribers, not cycles.
notify_subscribers_per_subscriber(e) ==
    [e EXCEPT
        !.invoked = @ \o [i \in 1..Len(e.subscribers) |-> <<"sub", e.subscribers[i]>>],
        !.times_subscribers_notified = @ + Len(e.subscribers)]

notify_subscribers(e) ==
    IF e.subscribers = <<>> THEN e
    ELSE [e EXCEPT
            !.invoked = @ \o [i \in 1..Len(e.subscribers) |-> <<"sub", e.subscribers[i]>>],
            !.times_subscribers_notified = @ + 1]

\* Mutant of update_each_mut: a borrowed subscriber is skipped (try_borrow_mut).
RECURSIVE update_each_mut_skip(_, _)
update_each_mut_skip(e, i) ==
    IF i > Len(e.subscribers_mut) THEN e
    ELSE LET sub == e.subscribers_mut[i] IN
         IF e.borrowed[sub] # "none"
         THEN update_each_mut_skip(e, i + 1)
         ELSE update_each_mut_skip([e EXCEPT !.field[sub] = e.field[sub] + UpdateDelta,
                                             !.invoked = Append(@, <<"mut", sub>>)],
                                   i + 1)

\* sub.borrow_mut() on a cell that is not borrowed: the dispatcher holds the
\* RefMut of sub.
borrow_mut(e, sub) ==
    [e EXCEPT !.borrowed[sub] = "mut",
              !.guards = [now |-> @.now \cup {sub},
                          most |-> IF Cardinality(@.now \cup {sub}) > @.most
                                   THEN Cardinality(@.now \cup {sub}) ELSE @.most]]

\* Mutant of drop_guard: the RefMut outlives the statement.
drop_guard_leaked(e, sub) == e

\* The end of the statement sub.borrow_mut().update_mut(); drops the
\* temporary RefMut.
drop_guard(e, sub) ==
    [e EXCEPT !.borrowed[sub] = "none", !.guards.now = @ \ {sub}]

\* The loop of notify_subscribers_mut from entry i on: RefCell::borrow_mut
\* panics when the cell is borrowed, else update_mut runs under the RefMut,
\* which is dropped at the end of the statement.
RECURSIVE update_each_mut(_, _)
update_each_mut(e, i) ==
    IF i > Len(e.subscribers_mut) THEN e
    ELSE LET sub == e.subscribers_mut[i] IN
         IF e.borrowed[sub] # "none"
         THEN [e EXCEPT !.outcome = "panic"]
         ELSE update_each_mut(
                 drop_guard([borrow_mut(e, sub) EXCEPT
                                !.field[sub] = update_mut(@),
                                !.invoked = Append(@, <<"mut", sub>>)], sub),
                 i + 1)

\* Mutant of notify_subscribers_mut: no early return on an empty collection.
notify_subscribers_mut_no_guard(e) ==
    LET r == update_each_mut(e, 1) IN
    IF r.outcome = "panic" THEN r
    ELSE [r EXCEPT !.times_subscribers_mut_notified = @ + 1]

notify_subscribers_mut(e) ==
    IF e.subscribers_mut = <<>> THEN e
    ELSE LET r == update_each_mut(e, 1) IN
         IF r.outcome = "panic" THEN r
         ELSE [r EXCEPT !.times_subscribers_mut_notified = @ + 1]

\* Mutant of notify_fn_subscribers: the read-only kind's counter is the one
\* incremented.
notify_fn_subscribers_wrong_counter(e) ==
    IF e.fn_subscribers = <<>> THEN e
    ELSE [e EXCEPT
            !.invoked = @ \o [i \in 1..Len(e.fn_subscribers) |-> <<"fn", e.fn_subscribers[i]>>],
            !.times_subscribers_notified = @ + 1]

notify_fn_subscribers(e) ==
    IF e.fn_subscribers = <<>> THEN e
    ELSE [e EXCEPT
            !.invoked = @ \o [i \in 1..Len(e.fn_subscribers) |-> <<"fn", e.fn_subscribers[i]>>],
            !.times_func_subscribers_notified = @ + 1]

\* Mutant of clear_subscribers: clearing also resets the kind's counter.
clear_subscribers_reset(e) ==
    [e EXCEPT !.subscribers = <<>>, !.times_subscribers_notified = 0]

clear_subscribers(e) == [e EXCEPT !.subscribers = <<>>]

\* Mutant of clear_subscribers_mut: the read-only collection is cleared too.
clear_subscribers_mut_and_subscribers(e) ==
    [e EXCEPT !.subscribers_mut = <<>>, !.subscribers = <<>>]

clear_subscribers_mut(e) == [e EXCEPT !.subscribers_mut = <<>>]

clear_fn_subscribers(e) == [e EXCEPT !.fn_subscribers = <<>>]

clear_all_subscribers(e) == clear_fn_subscribers(clear_subscribers(e))

\* Mutant of try_clear: Clear::None falls into the closures' arm.
try_clear_none_clears(e, c) ==
    CASE c = "All" -> clear_all_subscribers(e)
      [] c = "OnlySubscribers" -> clear_subscribers(e)
      [] c = "OnlySubscribersMut" -> clear_subscribers_mut(e)
      [] c \in {"OnlyFuncSubscribers", "None"} -> clear_fn_subscribers(e)

try_clear(e, c) ==
    CASE c = "All" -> clear_all_subscribers(e)
      [] c = "OnlySubscribers" -> clear_subscribers(e)
      [] c = "OnlySubscribersMut" -> clear_subscribers_mut(e)
      [] c = "OnlyFuncSubscribers" -> clear_fn_subscribers(e)
      [] c = "None" -> e

\* Mutant of dispatch: the OnlySubscribersMut arm calls notify_subscribers.
dispatch_wrong_arm(e, n) ==
    CASE n = "All" ->
            LET r == notify_subscribers_mut(notify_subscribers(e)) IN
            IF r.outcome = "panic" THEN r ELSE notify_fn_subscribers(r)
      [] n \in {"OnlySubscribers", "OnlySubscribersMut"} -> notify_subscribers(e)
      [] n = "OnlyFnSubscribers" -> notify_fn_subscribers(e)

\* The match of Event::notify; a panic unwinds past what follows it.
dispatch(e, n) ==
    CASE n = "All" ->
            LET r == notify_subscribers_mut(notify_subscribers(e)) IN
            IF r.outcome = "panic" THEN r ELSE notify_fn_subscribers(r)
      [] n = "OnlySubscribers" -> notify_subscribers(e)
      [] n = "OnlySubscribersMut" -> notify_subscribers_mut(e)
      [] n = "OnlyFnSubscribers" -> notify_fn_subscribers(e)

\* Mutant of notify: try_clear() runs although the dispatch panicked.
notify_clears_after_panic(e, cfg) ==
    try_clear(dispatch(e, cfg.subscribers_to_notify),
              cfg.clear_subscribers_after_notification)

\* Event::notify: the match, then try_clear(); a panic in the match unwinds
\* past try_clear().
notify(e, cfg) ==
    LET r == dispatch(e, cfg.subscribers_to_notify) IN
    IF r.outcome = "panic" THEN r
    ELSE try_clear(r, cfg.clear_subscribers_after_notification)

\* Counters of the Event, in the order read-only, mutating, closure.
Times == <<times_subscribers_notified, times_subscribers_mut_notified,
           times_func_subscribers_notified>>

\* The state after a call that turned Ev into e.
Store(e) ==
    /\ subscribers' = e.subscribers
    /\ subscribers_mut' = e.subscribers_mut
    /\ fn_subscribers' = e.fn_subscribers
    /\ times_subscribers_notified' = e.times_subscribers_notified
    /\ times_subscribers_mut_notified' = e.times_subscribers_mut_notified
    /\ times_func_subscribers_notified' = e.times_func_subscribers_notified
    /\ field' = e.field
    /\ held' = e.borrowed
    /\ guards' = e.guards
    /\ invoked' = e.invoked

\* A caller that has panicked makes no further call; a behaviour holds at
\* most MaxCalls calls.
Alive == object = "Event" /\ op.outcome = "ok" /\ calls < MaxCalls

\* Event::new(config) / Event::default().
InitEvent ==
    /\ subscribers = <<>>
    /\ subscribers_mut = <<>>
    /\ fn_subscribers = <<>>
    /\ times_subscribers_notified = 0
    /\ times_subscribers_mut_notified = 0
    /\ times_func_subscribers_notified = 0
    /\ config \in [subscribers_to_notify : NotifyValues,
                   clear_subscribers_after_notification : ClearValues]
    /\ field = [m \in Muts |-> InitialField]
    /\ held = NoBorrow
    /\ guards = NoGuard
    /\ op = [name |-> "new", arg |-> "", outcome |-> "ok"]
    /\ invoked = <<>>
    /\ calls = 0
    /\ streak = [n |-> 0, base |-> <<0, 0, 0>>]
    /\ registered = [subs |-> {<<>>}, muts |-> {<<>>}]

\* The registration orders after subscribe(h): h is the last registered.
pushed(orders, h) == {Append(r, h) : r \in orders}

\* The registration orders after unsubscribe(h): any one entry of h is the
\* one that has gone, the others keep their order (no entry of h: the call
\* panicked and nothing has gone).
removed(orders, h) ==
    IF \A r \in orders : \A i \in 1..Len(r) : r[i] # h THEN orders
    ELSE UNION {{[j \in 1..(Len(r) - 1) |-> IF j < i THEN r[j] ELSE r[j + 1]] :
                    i \in {k \in 1..Len(r) : r[k] = h}} : r \in orders}

\* Mutant of Subscribe: a handle that is already registered is not pushed.
SubscribeOnce(subscriber) ==
    /\ Alive
    /\ Store([Ev EXCEPT !.subscribers = IF contains(Ev, subscriber) # 0 THEN @
                                        ELSE Append(@, subscriber)])
    /\ op' = [name |-> "subscribe", arg |-> subscriber, outcome |-> "ok"]
    /\ streak' = [n |-> 0, base |-> Times]
    /\ registered' = IF contains(Ev, subscriber) # 0 THEN registered
                     ELSE [registered EXCEPT !.subs = pushed(@, subscriber)]
    /\ calls' = calls + 1
    /\ UNCHANGED config

Subscribe(subscriber) ==
    /\ Alive
    /\ Store([Ev EXCEPT !.subscribers = Append(@, subscriber)])
    /\ op' = [name |-> "subscribe", arg |-> subscriber, outcome |-> "ok"]
    /\ streak' = [n |-> 0, base |-> Times]
    /\ registered' = [registered EXCEPT !.subs = pushed(@, subscriber)]
    /\ calls' = calls + 1
    /\ UNCHANGED config

SubscribeMut(subscriber) ==
    /\ Alive
    /\ Store([Ev EXCEPT !.subscribers_mut = Append(@, subscriber)])
    /\ op' = [name |-> "subscribe_mut", arg |-> subscriber, outcome |-> "ok"]
    /\ streak' = [n |-> 0, base |-> Times]
    /\ registered' = [registered EXCEPT !.muts = pushed(@, subscriber)]
    /\ calls' = calls + 1
    /\ UNCHANGED config

SubscribeAsFn(func) ==
    /\ Alive
    /\ Store([Ev EXCEPT !.fn_subscribers = Append(@, func)])
    /\ op' = [name |-> "subscribe_as_fn", arg |-> func, outcome |-> "ok"]
    /\ streak' = [n |-> 0, base |-> Times]
    /\ calls' = calls + 1
    /\ UNCHANGED <<config, registered>>

\* Mutant of unsubscribe: the last entry is removed when the handle is not
\* found.
unsubscribe_pops_on_miss(e, subscriber) ==
    LET index == contains(e, subscriber) IN
    IF index = 0
    THEN [e EXCEPT !.outcome = "panic",
                   !.subscribers = SubSeq(@, 1, Len(@) - 1)]
    ELSE [e EXCEPT !.subscribers = swap_remove(@, index)]

\* Event::unsubscribe: expect() panics on None, else swap_remove(index).
unsubscribe(e, subscriber) ==
    LET index == contains(e, subscriber) IN
    IF index = 0 THEN [e EXCEPT !.outcome = "panic"]
    ELSE [e EXCEPT !.subscribers = swap_remove(@, index)]

unsubscribe_mut(e, subscriber) ==
    LET index == contains_mut(e, subscriber) IN
    IF index = 0 THEN [e EXCEPT !.outcome = "panic"]
    ELSE [e EXCEPT !.subscribers_mut = swap_remove(@, index)]

Unsubscribe(subscriber) ==
    /\ Alive
    /\ LET r == unsubscribe(Ev, subscriber) IN
       /\ Store(r)
       /\ op' = [name |-> "unsubscribe", arg |-> subscriber, outcome |-> r.outcome]
    /\ registered' = [registered EXCEPT !.subs = removed(@, subscriber)]
    /\ calls' = calls + 1
    /\ UNCHANGED <<config, streak>>

UnsubscribeMut(subscriber) ==
    /\ Alive
    /\ LET r == unsubscribe_mut(Ev, subscriber) IN
       /\ Store(r)
       /\ op' = [name |-> "unsubscribe_mut", arg |-> subscriber, outcome |-> r.outcome]
    /\ registered' = [registered EXCEPT !.muts = removed(@, subscriber)]
    /\ calls' = calls + 1
    /\ UNCHANGED <<config, streak>>

\* Mutant of Notify: the clearing at the end puts the default configuration
\* back.
NotifyResetsConfig(b) ==
    /\ Alive
    /\ LET r == notify([Ev EXCEPT !.borrowed = b], config) IN
       /\ Store(r)
       /\ op' = [name |-> "notify", arg |-> "", outcome |-> r.outcome]
       /\ registered' = [subs |-> IF r.subscribers = <<>> THEN {<<>>}
                                  ELSE registered.subs,
                         muts |-> IF r.subscribers_mut = <<>> THEN {<<>>}
                                  ELSE registered.muts]
    /\ calls' = calls + 1
    /\ streak' = [streak EXCEPT !.n = @ + 1]
    /\ config' = DefaultConfig

\* notify(), called while the caller holds the guards b.
Notify(b) ==
    /\ Alive
    /\ LET r == notify([Ev EXCEPT !.borrowed = b], config) IN
       /\ Store(r)
       /\ op' = [name |-> "notify", arg |-> "", outcome |-> r.outcome]
       /\ registered' = [subs |-> IF r.subscribers = <<>> THEN {<<>>}
                                  ELSE registered.subs,
                         muts |-> IF r.subscribers_mut = <<>> THEN {<<>>}
                                  ELSE registered.muts]
    /\ calls' = calls + 1
    /\ streak' = [streak EXCEPT !.n = @ + 1]
    /\ UNCHANGED config

\* ------------------------------------------------------- struct EventAsync

\* EventAsync::new(config) / EventAsync::default(); the caller is outside
\* any call and no thread exists.
InitEventAsync ==
    /\ a_subscribers = <<>>
    /\ a_fn_subscribers = <<>>
    /\ a_times_subscribers_notified = 0
    /\ a_times_func_subscribers_notified = 0
    /\ a_config \in [subscribers_to_notify : NotifyValues,
                     clear_subscribers_after_notification : ClearValues]
    /\ pc = "idle"
    /\ call = [name |-> "new", arg |-> "", outcome |-> "ok"]
    /\ phase = "none"
    /\ units = <<>>
    /\ handles = <<>>
    /\ a_pre = [subscribers |-> <<>>, fn_subscribers |-> <<>>, times |-> <<0, 0>>]
    /\ a_calls = 0

\* The caller is between two calls, has not panicked and has calls left.
AIdle ==
    object = "EventAsync" /\ pc = "idle" /\ call.outcome = "ok" /\ a_calls < MaxAsyncCalls

ATimes == <<a_times_subscribers_notified, a_times_func_subscribers_notified>>

ASubscribe(subscriber) ==
    /\ AIdle
    /\ a_subscribers' = Append(a_subscribers, subscriber)
    /\ call' = [name |-> "subscribe", arg |-> subscriber, outcome |-> "ok"]
    /\ a_calls' = a_calls + 1
    /\ UNCHANGED <<a_fn_subscribers, a_times_subscribers_notified,
                   a_times_func_subscribers_notified, a_config, pc, phase,
                   units, handles, a_pre>>

ASubscribeAsFn(subscriber) ==
    /\ AIdle
    /\ a_fn_subscribers' = Append(a_fn_subscribers, subscriber)
    /\ call' = [name |-> "subscribe_as_fn", arg |-> subscriber, outcome |-> "ok"]
    /\ a_calls' = a_calls + 1
    /\ UNCHANGED <<a_subscribers, a_times_subscribers_notified,
                   a_times_func_subscribers_notified, a_config, pc, phase,
                   units, handles, a_pre>>

\* The methods tests/event_async_tests.rs calls on an EventAsync for
\* lock-wrapped mutating subscribers.
AsyncMutCalls == {"subscribe_mut", "notify_subscribers_mut"}

\* A call of subscribe_mut / notify_subscribers_mut: the struct has no
\* collection of mutating subscribers and its impl block no method of that
\* name, so the call has no defined outcome and the caller goes no further.
AUndefined(name) ==
    /\ AIdle
    /\ pc' = "no_method"
    /\ call' = [name |-> name, arg |-> "", outcome |-> "no_method"]
    /\ a_calls' = a_calls + 1
    /\ UNCHANGED <<a_subscribers, a_fn_subscribers, a_times_subscribers_notified,
                   a_times_func_subscribers_notified, a_config, phase,
                   units, handles, a_pre>>

\* EventAsync::unsubscribe: position(Arc::ptr_eq).expect(..), swap_remove.
AUnsubscribe(rhs) ==
    /\ AIdle
    /\ LET index == position(a_subscribers, rhs) IN
       IF index = 0
       THEN /\ pc' = "panicked"
            /\ call' = [name |-> "unsubscribe", arg |-> rhs, outcome |-> "panic"]
            /\ UNCHANGED a_subscribers
       ELSE /\ a_subscribers' = swap_remove(a_subscribers, index)
            /\ call' = [name |-> "unsubscribe", arg |-> rhs, outcome |-> "ok"]
            /\ UNCHANGED pc
    /\ a_calls' = a_calls + 1
    /\ UNCHANGED <<a_fn_subscribers, a_times_subscribers_notified,
                   a_times_func_subscribers_notified, a_config, phase,
                   units, handles, a_pre>>

\* The kind a call notifies first: the match of EventAsync::notify, or the
\* narrow call's own kind.
first_phase(name, n) ==
    CASE name = "notify_subscribers" -> "subs"
      [] name = "notify_fn_subscribers" -> "fns"
      [] name = "notify" /\ n = "OnlyFnSubscribers" -> "fns"
      [] name = "notify" /\ n \in {"All", "OnlySubscribers"} -> "subs"
      [] name = "notify" /\ n \notin AsyncNotifyValues -> "no_arm"

\* The caller enters notify(), notify_subscribers() or
\* notify_fn_subscribers(): handles is the empty Vec<JoinHandle<()>>.  The
\* match of notify() has no arm for Notify::OnlySubscribersMut.
AEnter(name) ==
    /\ AIdle
    /\ phase' = first_phase(name, a_config.subscribers_to_notify)
    /\ IF phase' = "no_arm"
       THEN pc' = "no_arm" /\ call' = [name |-> name, arg |-> "", outcome |-> "no_arm"]
       ELSE pc' = "spawn" /\ call' = [name |-> name, arg |-> "", outcome |-> "running"]
    /\ units' = <<>>
    /\ handles' = <<>>
    /\ a_pre' = [subscribers |-> a_subscribers, fn_subscribers |-> a_fn_subscribers,
                 times |-> ATimes]
    /\ a_calls' = a_calls + 1
    /\ UNCHANGED <<a_subscribers, a_fn_subscribers, a_times_subscribers_notified,
                   a_times_func_subscribers_notified, a_config>>

\* The collection the current loop walks.
members(ph) == IF ph = "subs" THEN a_subscribers ELSE a_fn_subscribers

\* One turn of the spawn loop: thread::spawn of the next member's update,
\* its JoinHandle pushed.
ASpawn ==
    /\ pc = "spawn"
    /\ Len(handles) < Len(members(phase))
    /\ units' = Append(units, [kind |-> phase,
                               id |-> members(phase)[Len(handles) + 1],
                               st |-> "running"])
    /\ handles' = Append(handles, Len(units) + 1)
    /\ UNCHANGED <<a_subscribers, a_fn_subscribers, a_times_subscribers_notified,
                   a_times_func_subscribers_notified, a_config, pc, call, phase,
                   a_pre, a_calls>>

\* The counter the statement after the spawn loop increments.
count(ph, times) ==
    IF ph = "subs" THEN <<times[1] + 1, times[2]>> ELSE <<times[1], times[2] + 1>>

\* The spawn loop is over: the kind's counter += 1, then the join loop.
ACount ==
    /\ pc = "spawn"
    /\ Len(handles) = Len(members(phase))
    /\ a_times_subscribers_notified' = count(phase, ATimes)[1]
    /\ a_times_func_subscribers_notified' = count(phase, ATimes)[2]
    /\ pc' = "join"
    /\ UNCHANGED <<a_subscribers, a_fn_subscribers, a_config, call, phase,
                   units, handles, a_pre, a_calls>>

\* Mutant of join_next: the Result of join() is dropped, not unwrapped.
join_next_ignore_err(hs, us) == [outcome |-> "ok", handles |-> Tail(hs)]

\* h.join().unwrap() on the next handle: it blocks while the thread runs,
\* and unwrap() panics on the Err of a thread that panicked; the unwinding
\* drops the handles not yet joined, which detaches their threads.
join_next(hs, us) ==
    IF us[Head(hs)].st = "panicked"
    THEN [outcome |-> "panic", handles |-> <<>>]
    ELSE [outcome |-> "ok", handles |-> Tail(hs)]

\* Mutant of finished: the caller does not wait for the thread.
finished_no_wait(u) == TRUE

\* JoinHandle::join returns once the thread has ended.
finished(u) == u.st # "running"

AJoin ==
    /\ pc = "join"
    /\ handles # <<>>
    /\ finished(units[Head(handles)])
    /\ LET r == join_next(handles, units) IN
       /\ handles' = r.handles
       /\ IF r.outcome = "panic"
          THEN pc' = "panicked" /\ call' = [call EXCEPT !.outcome = "panic"]
          ELSE UNCHANGED <<pc, call>>
    /\ UNCHANGED <<a_subscribers, a_fn_subscribers, a_times_subscribers_notified,
                   a_times_func_subscribers_notified, a_config, phase, units,
                   a_pre, a_calls>>

\* EventAsync::try_clear and the clear_* it calls, on the two collections.
a_try_clear(c, subs, fns) ==
    CASE c = "All" -> <<(<<>>), (<<>>)>>
      [] c = "OnlySubscribers" -> <<(<<>>), fns>>
      [] c = "OnlyFuncSubscribers" -> <<subs, (<<>>)>>
      [] c = "None" -> <<subs, fns>>

\* The join loop is over.  Inside notify() with Notify::All the closures'
\* loop follows the subscribers'.
\* Mutant of ANextKind: the closures are spawned without the join loop over
\* the subscribers' threads.
ANextKindNoJoin ==
    /\ pc = "join"
    /\ call.name = "notify" /\ a_config.subscribers_to_notify = "All" /\ phase = "subs"
    /\ phase' = "fns"
    /\ pc' = "spawn"
    /\ handles' = <<>>
    /\ UNCHANGED <<a_subscribers, a_fn_subscribers, a_times_subscribers_notified,
                   a_times_func_subscribers_notified, a_config, call, units,
                   a_pre, a_calls>>

ANextKind ==
    /\ pc = "join"
    /\ handles = <<>>
    /\ call.name = "notify" /\ a_config.subscribers_to_notify = "All" /\ phase = "subs"
    /\ phase' = "fns"
    /\ pc' = "spawn"
    /\ UNCHANGED <<a_subscribers, a_fn_subscribers, a_times_subscribers_notified,
                   a_times_func_subscribers_notified, a_config, call, units,
                   handles, a_pre, a_calls>>

\* Mutant of AReturn: the narrow calls end with try_clear() as well.
AReturnAlwaysClears ==
    /\ pc = "join"
    /\ handles = <<>>
    /\ ~(call.name = "notify" /\ a_config.subscribers_to_notify = "All" /\ phase = "subs")
    /\ IF a_config.clear_subscribers_after_notification \notin AsyncClearValues
       THEN /\ pc' = "no_arm"
            /\ call' = [call EXCEPT !.outcome = "no_arm"]
            /\ UNCHANGED <<a_subscribers, a_fn_subscribers>>
       ELSE LET r == a_try_clear(a_config.clear_subscribers_after_notification,
                                 a_subscribers, a_fn_subscribers) IN
            /\ a_subscribers' = r[1]
            /\ a_fn_subscribers' = r[2]
            /\ pc' = "idle"
            /\ call' = [call EXCEPT !.outcome = "ok"]
    /\ UNCHANGED <<a_times_subscribers_notified, a_times_func_subscribers_notified,
                   a_config, phase, units, handles, a_pre, a_calls>>

\* The call returns; notify() ends with try_clear(), whose match has no arm
\* for Clear::OnlySubscribersMut.
AReturn ==
    /\ pc = "join"
    /\ handles = <<>>
    /\ ~(call.name = "notify" /\ a_config.subscribers_to_notify = "All" /\ phase = "subs")
    /\ IF /\ call.name = "notify"
          /\ a_config.clear_subscribers_after_notification \notin AsyncClearValues
       THEN /\ pc' = "no_arm"
            /\ call' = [call EXCEPT !.outcome = "no_arm"]
            /\ UNCHANGED <<a_subscribers, a_fn_subscribers>>
       ELSE LET r == IF call.name = "notify"
                     THEN a_try_clear(a_config.clear_subscribers_after_notification,
                                      a_subscribers, a_fn_subscribers)
                     ELSE <<a_subscribers, a_fn_subscribers>> IN
            /\ a_subscribers' = r[1]
            /\ a_fn_subscribers' = r[2]
            /\ pc' = "idle"
            /\ call' = [call EXCEPT !.outcome = "ok"]
    /\ UNCHANGED <<a_times_subscribers_notified, a_times_func_subscribers_notified,
                   a_config, phase, units, handles, a_pre, a_calls>>

\* A spawned thread: its update() / closure returns, or panics.
UnitFinish(i) ==
    /\ units[i].st = "running"
    /\ units' = [units EXCEPT ![i].st = "done"]
    /\ UNCHANGED <<a_subscribers, a_fn_subscribers, a_times_subscribers_notified,
                   a_times_func_subscribers_notified, a_config, pc, call, phase,
                   handles, a_pre, a_calls>>

UnitPanic(i) ==
    /\ units[i].st = "running"
    /\ units' = [units EXCEPT ![i].st = "panicked"]
    /\ UNCHANGED <<a_subscribers, a_fn_subscribers, a_times_subscribers_notified,
                   a_times_func_subscribers_notified, a_config, pc, call, phase,
                   handles, a_pre, a_calls>>

\* ------------------------------------- struct with #[derive(Event)] fields

\* The configurations the struct's Events are constructed with:
\* Event::default(), and Event::new(config) with a policy that keeps the
\* subscribers.
LogicConfigs ==
    {DefaultConfig,
     [subscribers_to_notify |-> "All", clear_subscribers_after_notification |-> "None"]}

\* Event::new(config).
new(cfg) ==
    [subscribers |-> <<>>, subscribers_mut |-> <<>>, fn_subscribers |-> <<>>,
     times_subscribers_notified |-> 0, times_subscribers_mut_notified |-> 0,
     times_func_subscribers_notified |-> 0, config |-> cfg]

\* One Event of the struct as a call finds it, with the subscribers' state
\* fld; the caller holds no guard.
EvOf(x, fld) ==
    [subscribers |-> x.subscribers,
     subscribers_mut |-> x.subscribers_mut,
     fn_subscribers |-> x.fn_subscribers,
     times_subscribers_notified |-> x.times_subscribers_notified,
     times_subscribers_mut_notified |-> x.times_subscribers_mut_notified,
     times_func_subscribers_notified |-> x.times_func_subscribers_notified,
     field |-> fld,
     borrowed |-> NoBorrow,
     guards |-> NoGuard,
     invoked |-> <<>>,
     outcome |-> "ok"]

\* The Event a call leaves behind.
Left(r, cfg) ==
    [subscribers |-> r.subscribers, subscribers_mut |-> r.subscribers_mut,
     fn_subscribers |-> r.fn_subscribers,
     times_subscribers_notified |-> r.times_subscribers_notified,
     times_subscribers_mut_notified |-> r.times_subscribers_mut_notified,
     times_func_subscribers_notified |-> r.times_func_subscribers_notified,
     config |-> cfg]

\* A call on the Event in field name of the struct l that turned that Event
\* into r: the struct afterwards, and the call's record.
Called(l, name, r) == [l |-> [l EXCEPT ![name] = Left(r, @.config)], r |-> r]

\* Mutant of on_field: every generated method notifies the first field.
on_first_field(l, name, fld) ==
    Called(l, "process_completed",
           notify(EvOf(l["process_completed"], fld), l["process_completed"].config))

\* The body the derive macro generates for on_<name>: self.<name>.notify().
on_field(l, name, fld) == Called(l, name, notify(EvOf(l[name], fld), l[name].config))

LAlive == object = "Logic" /\ l_op.outcome = "ok" /\ l_calls < MaxLogicCalls

InitLogic ==
    /\ logic \in [EventFields -> {new(cfg) : cfg \in LogicConfigs}]
    /\ l_field = [m \in Muts |-> InitialField]
    /\ l_op = [event |-> "", name |-> "default", arg |-> "", outcome |-> "ok",
               invoked |-> <<>>]
    /\ l_calls = 0

\* The state after the call name(arg) made through field f, with result c.
LStore(f, name, arg, c) ==
    /\ logic' = c.l
    /\ l_field' = c.r.field
    /\ l_op' = [event |-> f, name |-> name, arg |-> arg, outcome |-> c.r.outcome,
                invoked |-> c.r.invoked]
    /\ l_calls' = l_calls + 1

LSubscribe(f, subscriber) ==
    /\ LAlive
    /\ LStore(f, "subscribe", subscriber,
              Called(logic, f, [EvOf(logic[f], l_field) EXCEPT
                                   !.subscribers = Append(@, subscriber)]))

LSubscribeMut(f, subscriber) ==
    /\ LAlive
    /\ LStore(f, "subscribe_mut", subscriber,
              Called(logic, f, [EvOf(logic[f], l_field) EXCEPT
                                   !.subscribers_mut = Append(@, subscriber)]))

LSubscribeAsFn(f, func) ==
    /\ LAlive
    /\ LStore(f, "subscribe_as_fn", func,
              Called(logic, f, [EvOf(logic[f], l_field) EXCEPT
                                   !.fn_subscribers = Append(@, func)]))

LUnsubscribe(f, subscriber) ==
    /\ LAlive
    /\ LStore(f, "unsubscribe", subscriber,
              Called(logic, f, unsubscribe(EvOf(logic[f], l_field), subscriber)))

LUnsubscribeMut(f, subscriber) ==
    /\ LAlive
    /\ LStore(f, "unsubscribe_mut", subscriber,
              Called(logic, f, unsubscribe_mut(EvOf(logic[f], l_field), subscriber)))

\* logic.on_<f>().
LOn(f) ==
    /\ LAlive
    /\ LStore(f, "on", "", on_field(logic, f, l_field))

\* ----------------------------------------------------------- specification

\* The struct the program does not construct stays as default() makes it.
AsyncAtRest == InitEventAsync /\ a_config = DefaultConfig
EventAtRest == InitEvent /\ config = DefaultConfig
LogicAtRest == InitLogic /\ \A f \in EventFields : logic[f].config = DefaultConfig

Init ==
    \/ object = "Event" /\ InitEvent /\ AsyncAtRest /\ LogicAtRest
    \/ object = "EventAsync" /\ InitEventAsync /\ EventAtRest /\ LogicAtRest
    \/ object = "Logic" /\ InitLogic /\ EventAtRest /\ AsyncAtRest

\* The steps of a behaviour that drives the EventAsync: the caller's calls
\* and the steps inside them, and the steps of the threads it spawned.
AsyncNext ==
    \/ \E s \in ASubs : ASubscribe(s) /\ UNCHANGED <<object, evars, lvars>>
    \/ \E f \in AFns : ASubscribeAsFn(f) /\ UNCHANGED <<object, evars, lvars>>
    \/ \E s \in ASubs : AUnsubscribe(s) /\ UNCHANGED <<object, evars, lvars>>
    \/ \E name \in {"notify", "notify_subscribers", "notify_fn_subscribers"} :
          AEnter(name) /\ UNCHANGED <<object, evars, lvars>>
    \/ \E name \in AsyncMutCalls : AUndefined(name) /\ UNCHANGED <<object, evars, lvars>>
    \/ ASpawn /\ UNCHANGED <<object, evars, lvars>>
    \/ ACount /\ UNCHANGED <<object, evars, lvars>>
    \/ AJoin /\ UNCHANGED <<object, evars, lvars>>
    \/ ANextKind /\ UNCHANGED <<object, evars, lvars>>
    \/ AReturn /\ UNCHANGED <<object, evars, lvars>>
    \/ \E i \in 1..Len(units) : UnitFinish(i) /\ UNCHANGED <<object, evars, lvars>>
    \/ \E i \in 1..Len(units) : UnitPanic(i) /\ UNCHANGED <<object, evars, lvars>>

Next ==
    \/ \E s \in Subs : Subscribe(s) /\ UNCHANGED <<object, avars, lvars>>
    \/ \E m \in Muts : SubscribeMut(m) /\ UNCHANGED <<object, avars, lvars>>
    \/ \E f \in Fns : SubscribeAsFn(f) /\ UNCHANGED <<object, avars, lvars>>
    \/ \E s \in Subs : Unsubscribe(s) /\ UNCHANGED <<object, avars, lvars>>
    \/ \E m \in Muts : UnsubscribeMut(m) /\ UNCHANGED <<object, avars, lvars>>
    \/ \E b \in BorrowStates : Notify(b) /\ UNCHANGED <<object, avars, lvars>>
    \/ AsyncNext
    \/ \E f \in EventFields, s \in LSubs :
          LSubscribe(f, s) /\ UNCHANGED <<object, evars, avars>>
    \/ \E f \in EventFields, m \in LMuts :
          LSubscribeMut(f, m) /\ UNCHANGED <<object, evars, avars>>
    \/ \E f \in EventFields, c \in LFns :
          LSubscribeAsFn(f, c) /\ UNCHANGED <<object, evars, avars>>
    \/ \E f \in EventFields, s \in LSubs :
          LUnsubscribe(f, s) /\ UNCHANGED <<object, evars, avars>>
    \/ \E f \in EventFields, m \in LMuts :
          LUnsubscribeMut(f, m) /\ UNCHANGED <<object, evars, avars>>
    \/ \E f \in EventFields : LOn(f) /\ UNCHANGED <<object, evars, avars>>

Spec == Init /\ [][Next]_vars

\* A step of the thread that called into the EventAsync, inside a call.
CallerStep ==
    (ASpawn \/ ACount \/ AJoin \/ ANextKind \/ AReturn)
    /\ UNCHANGED <<object, evars, lvars>>

\* The EventAsync under a scheduler that never starves the calling thread:
\* inside a call, a statement it can execute is executed.  Nothing is
\* assumed of the spawned threads (an update may run forever) nor of the
\* caller between two calls (it may make no further call).
AsyncInit == Init /\ object = "EventAsync"
FairSpec == AsyncInit /\ [][AsyncNext]_vars /\ WF_vars(CallerStep)

\* ------------------------------------------------------------------ claims

\* The handles in a collection, and the number of entries of one handle.
Range(s) == {s[i] : i \in 1..Len(s)}
Count(s, x) == Cardinality({i \in 1..Len(s) : s[i] = x})

\* What a call's invoked list holds for one kind, and the list a walk over
\* a collection of that kind makes.
Invoked(kind, log) == SelectSeq(log, LAMBDA x : x[1] = kind)
Walk(kind, s) == [i \in 1..Len(s) |-> <<kind, s[i]>>]

\* The step is a call of Event::notify, and it returned.
NotifyStep == op'.name = "notify"
NotifyReturned == op'.name = "notify" /\ op'.outcome = "ok"

SubsInScope == config.subscribers_to_notify \in {"All", "OnlySubscribers"}
MutsInScope == config.subscribers_to_notify \in {"All", "OnlySubscribersMut"}
FnsInScope == config.subscribers_to_notify \in {"All", "OnlyFnSubscribers"}

\* C1: with clear_subscribers_after_notification = All, after notify() has
\* returned the read-only, the mutating and the closure collection are all
\* empty.  (Event::clear_all_subscribers leaves subscribers_mut as it was.)
C1_AllCollectionsEmptyAfterClearAll ==
    (/\ op.name = "notify" /\ op.outcome = "ok"
     /\ config.clear_subscribers_after_notification = "All")
    => (subscribers = <<>> /\ subscribers_mut = <<>> /\ fn_subscribers = <<>>)

\* C2 as stated: with the read-only kind in scope, one notify() adds exactly
\* 1 to times_subscribers_notified for every N >= 0 registered read-only
\* subscribers and calls update once on each of them.
C2_CounterGrowsForEveryN ==
    [][(NotifyStep /\ SubsInScope)
       => /\ times_subscribers_notified' = times_subscribers_notified + 1
          /\ Invoked("sub", invoked') = Walk("sub", subscribers)]_vars

\* C2 amended: with the read-only kind in scope, one notify() over N >= 1
\* registered read-only subscribers adds exactly 1 (not N) to
\* times_subscribers_notified and calls update once on each of the N entries;
\* over N = 0 it leaves the counter as it was and calls no update.
C2_CounterGrowsOncePerNonEmptyCycle ==
    [][(NotifyStep /\ SubsInScope)
       => /\ Invoked("sub", invoked') = Walk("sub", subscribers)
          /\ times_subscribers_notified' =
                IF subscribers = <<>> THEN times_subscribers_notified
                ELSE times_subscribers_notified + 1]_vars

\* C2 witness: a notify() that called update on two read-only subscribers
\* has brought the counter from 0 to 1.
C2_Witness ==
    /\ op.name = "notify"
    /\ Len(Invoked("sub", invoked)) = 2
    /\ times_subscribers_notified = 1

\* The outcome and effect of removing handle h from collection s, giving s2:
\* not-found when h is absent; when h is in s once the call succeeds, h is
\* gone and every other handle keeps its entries.
UnsubscribeContract(s, h, outcome, s2, handles_) ==
    /\ Count(s, h) = 0 => outcome = "panic"
    /\ Count(s, h) = 1 =>
          /\ outcome = "ok"
          /\ Count(s2, h) = 0
          /\ \A x \in handles_ \ {h} : Count(s2, x) = Count(s, x)

\* C3: unsubscribe, unsubscribe_mut (Event) and unsubscribe (EventAsync)
\* fail with not-found when the handle is not in the collection; a handle
\* subscribed exactly once is removed and every other handle stays.
C3_UnsubscribeByIdentity ==
    [][/\ op'.name = "unsubscribe" =>
            UnsubscribeContract(subscribers, op'.arg, op'.outcome, subscribers', Subs)
       /\ op'.name = "unsubscribe_mut" =>
            UnsubscribeContract(subscribers_mut, op'.arg, op'.outcome,
                                subscribers_mut', Muts)
       /\ (call'.name = "unsubscribe" /\ a_calls' = a_calls + 1) =>
            UnsubscribeContract(a_subscribers, call'.arg, call'.outcome,
                                a_subscribers', ASubs)]_vars

\* C3 witness: an unsubscribe that succeeded on one of two registered
\* handles; the other handle is still registered.
C3_Witness ==
    /\ op.name = "unsubscribe" /\ op.outcome = "ok"
    /\ Len(subscribers) = 1
    /\ op.arg \notin Range(subscribers)
    /\ calls = 3

\* The caller is back from a call of the EventAsync that returned / that
\* ended in a panic.
NotifyCalls == {"notify", "notify_subscribers", "notify_fn_subscribers"}
NarrowKind == [notify_subscribers |-> "subs", notify_fn_subscribers |-> "fns"]
AReturned == pc = "idle" /\ call.outcome = "ok" /\ call.name \in NotifyCalls
APanicked == pc = "panicked" /\ call.name \in NotifyCalls

\* C4: when notify_subscribers() / notify_fn_subscribers() of the EventAsync
\* has returned, it has spawned exactly one thread per member of its kind,
\* every one of them has ended, and the kind's counter is 1 higher than at
\* the call (the other counter as it was), in every interleaving.
C4_ReturnsAfterEveryUnit ==
    (AReturned /\ call.name \in DOMAIN NarrowKind)
    => LET kind == NarrowKind[call.name]
           coll == IF kind = "subs" THEN a_pre.subscribers ELSE a_pre.fn_subscribers IN
       /\ Len(units) = Len(coll)
       /\ \A i \in 1..Len(units) :
             /\ units[i].kind = kind
             /\ units[i].id = coll[i]
             /\ units[i].st # "running"
       /\ ATimes = count(kind, a_pre.times)

\* C4 witness: notify_subscribers() has returned after two threads ran.
C4_Witness ==
    /\ AReturned /\ call.name = "notify_subscribers"
    /\ Len(units) = 2
    /\ a_times_subscribers_notified = 1

\* C5: a notify call of the EventAsync never returns normally when a thread
\* it spawned has panicked.
C5_UnitFailureReachesCaller ==
    AReturned => \A i \in 1..Len(units) : units[i].st # "panicked"

\* C5 witness: a thread spawned by notify() has panicked and the call has
\* ended in that panic.
C5_Witness ==
    /\ APanicked /\ call.name = "notify"
    /\ \E i \in 1..Len(units) : units[i].st = "panicked"

\* C6: when a notify call of the EventAsync has ended with a failure, no
\* thread it spawned is still running.  (unwrap() panics at the first failed
\* join and the handles not yet joined are dropped, not joined.)
C6_FailureOnlyAfterEveryUnitFinished ==
    APanicked => \A i \in 1..Len(units) : units[i].st # "running"

\* The first entry of subscribers_mut the caller holds a guard on, under the
\* guards b; 0 when it holds none.
FirstHeld(b) ==
    IF \E i \in 1..Len(subscribers_mut) : b[subscribers_mut[i]] # "none"
    THEN CHOOSE i \in 1..Len(subscribers_mut) :
            /\ b[subscribers_mut[i]] # "none"
            /\ \A j \in 1..(i - 1) : b[subscribers_mut[j]] = "none"
    ELSE 0

\* C7: when notify() reaches a mutating subscriber on which a Ref or RefMut
\* is held elsewhere, the call ends in a panic at that subscriber: update_mut
\* has run on the entries before it and on no entry from it on, the state of
\* every subscriber so held is as it was, and the counter is not incremented.
C7_BorrowedSubscriberPanics ==
    [][(NotifyStep /\ MutsInScope /\ FirstHeld(held') > 0)
       => /\ op'.outcome = "panic"
          /\ Invoked("mut", invoked') =
                Walk("mut", SubSeq(subscribers_mut, 1, FirstHeld(held') - 1))
          /\ \A m \in Muts : held'[m] # "none" => field'[m] = field[m]
          /\ times_subscribers_mut_notified' = times_subscribers_mut_notified]_vars

\* C7 witness: notify() has panicked at the second mutating subscriber, held
\* by the caller, after update_mut ran on the first.
C7_Witness ==
    /\ op.name = "notify" /\ op.outcome = "panic"
    /\ subscribers_mut = <<"m1", "m2">>
    /\ held["m2"] # "none"
    /\ invoked = <<(<<"mut", "m1">>)>>
    /\ field["m2"] = InitialField

\* C8: with one mutating subscriber registered and the mutating kind in
\* scope, a notify() that returns has run update_mut exactly once (the state
\* is 10 higher, 10 becomes 20) and added exactly 1 to
\* times_subscribers_mut_notified.
C8_OneMutatingUpdatePerCycle ==
    [][(NotifyReturned /\ MutsInScope /\ Len(subscribers_mut) = 1)
       => LET m == subscribers_mut[1] IN
          /\ Invoked("mut", invoked') = <<(<<"mut", m>>)>>
          /\ field'[m] = field[m] + UpdateDelta
          /\ field[m] = InitialField => field'[m] = 20
          /\ \A x \in Muts \ {m} : field'[x] = field[x]
          /\ times_subscribers_mut_notified' = times_subscribers_mut_notified + 1]_vars

\* C8 witness: one notify() over one mutating subscriber: state 20, counter 1.
C8_Witness ==
    /\ op.name = "notify" /\ op.outcome = "ok"
    /\ invoked = <<(<<"mut", "m1">>)>>
    /\ field["m1"] = 20
    /\ times_subscribers_mut_notified = 1

\* C9: with clear None and closures in scope, every notify() on an Event
\* holding one closure leaves the closure registered, and the k-th notify()
\* in a row brings times_func_subscribers_notified to k above what it was
\* when the row began (to 2 after two calls on a fresh Event).
C9_ClosureNotifiedOnEveryCall ==
    [][(/\ NotifyReturned /\ FnsInScope
        /\ config.clear_subscribers_after_notification = "None"
        /\ Len(fn_subscribers) = 1)
       => /\ fn_subscribers' = fn_subscribers
          /\ Invoked("fn", invoked') = Walk("fn", fn_subscribers)
          /\ times_func_subscribers_notified' = streak.base[3] + streak'.n]_vars

\* C9 witness: two notify() calls in a row, the closure still registered and
\* the closure counter at 2.
C9_Witness ==
    /\ op.name = "notify" /\ op.outcome = "ok"
    /\ config.clear_subscribers_after_notification = "None"
    /\ streak.n = 2 /\ streak.base = <<0, 0, 0>>
    /\ Len(fn_subscribers) = 1
    /\ times_func_subscribers_notified = 2

\* The clear policy covers every kind the configuration notifies.
ClearCoversNotified ==
    LET n == config.subscribers_to_notify
        c == config.clear_subscribers_after_notification IN
    \/ c = "All"
    \/ n = "OnlySubscribers" /\ c = "OnlySubscribers"
    \/ n = "OnlySubscribersMut" /\ c = "OnlySubscribersMut"
    \/ n = "OnlyFnSubscribers" /\ c = "OnlyFuncSubscribers"

\* C10: when the clear policy covers the notified kinds (the default
\* configuration among them), a notify() that follows a notify() with no
\* subscribe call in between invokes nothing and leaves every counter as it
\* was.  (After Clear::All the mutating subscribers are still registered.)
C10_NotifiedAtMostOnce ==
    [][(NotifyStep /\ ClearCoversNotified /\ streak.n >= 1)
       => (invoked' = <<>> /\ Times' = Times)]_vars

\* C11: with subscribers_to_notify = OnlyFnSubscribers, notify() on an Event
\* holding one read-only subscriber and one closure invokes the closure and
\* nothing else: times_subscribers_notified stays as it was (0 on a fresh
\* Event), times_func_subscribers_notified grows by 1 (to 1 on a fresh Event).
C11_OnlyClosureInvoked ==
    [][(/\ NotifyStep /\ config.subscribers_to_notify = "OnlyFnSubscribers"
        /\ Len(subscribers) = 1 /\ Len(fn_subscribers) = 1)
       => /\ op'.outcome = "ok"
          /\ invoked' = Walk("fn", fn_subscribers)
          /\ times_subscribers_notified' = times_subscribers_notified
          /\ times_subscribers_mut_notified' = times_subscribers_mut_notified
          /\ times_func_subscribers_notified' = times_func_subscribers_notified + 1
          /\ Times = <<0, 0, 0>> => Times' = <<0, 0, 1>>]_vars

\* C11 witness: the first notify() of an OnlyFnSubscribers Event with one
\* read-only subscriber and one closure has called the closure only.
C11_Witness ==
    /\ op.name = "notify" /\ op.outcome = "ok"
    /\ config.subscribers_to_notify = "OnlyFnSubscribers"
    /\ config.clear_subscribers_after_notification = "None"
    /\ Len(subscribers) = 1 /\ Len(fn_subscribers) = 1
    /\ invoked = <<(<<"fn", "f1">>)>>
    /\ Times = <<0, 0, 1>>

\* The three counters of an Event value.
CountersOf(e) == <<e.times_subscribers_notified, e.times_subscribers_mut_notified,
                   e.times_func_subscribers_notified>>

\* C12: no step of an Event or an EventAsync (subscribe, unsubscribe, notify,
\* the clearing in it) lowers a lifetime counter, so each counter is at least
\* what it was in every earlier state; and the clear policy changes no
\* counter: a notify() that returns leaves the counters as its dispatch made
\* them, and the return of an EventAsync call, where try_clear runs, leaves
\* both counters as they were.
C12_CountersNeverDecrease ==
    [][/\ \A i \in 1..3 : Times'[i] >= Times[i]
       /\ \A i \in 1..2 : ATimes'[i] >= ATimes[i]
       /\ NotifyReturned =>
             Times' = CountersOf(dispatch([Ev EXCEPT !.borrowed = held'],
                                          config.subscribers_to_notify))
       /\ (pc = "join" /\ pc' = "idle") => ATimes' = ATimes]_vars

\* C12 witness: a second notify() with Clear::All has emptied the read-only
\* collection again and the read-only counter stands at 2.
C12_Witness ==
    /\ op.name = "notify" /\ op.outcome = "ok"
    /\ config.clear_subscribers_after_notification = "All"
    /\ subscribers = <<>>
    /\ Invoked("sub", invoked) # <<>>
    /\ times_subscribers_notified = 2

\* C13: a notify() of the Event that has a kind in scope while no member of
\* that kind is registered leaves that kind's counter as it was.
C13_EmptyKindNotCounted ==
    [][NotifyStep
       => /\ (SubsInScope /\ subscribers = <<>>)
                => times_subscribers_notified' = times_subscribers_notified
          /\ (MutsInScope /\ subscribers_mut = <<>>)
                => times_subscribers_mut_notified' = times_subscribers_mut_notified
          /\ (FnsInScope /\ fn_subscribers = <<>>)
                => times_func_subscribers_notified' = times_func_subscribers_notified]_vars

\* C13 witness: a notify() with every kind in scope has run over a read-only
\* subscriber while no mutating subscriber and no closure was registered:
\* only the read-only counter has moved.
C13_Witness ==
    /\ op.name = "notify" /\ op.outcome = "ok"
    /\ config = [subscribers_to_notify |-> "All",
                 clear_subscribers_after_notification |-> "None"]
    /\ subscribers # <<>> /\ subscribers_mut = <<>> /\ fn_subscribers = <<>>
    /\ Times = <<1, 0, 0>>

\* C14: a notify(), notify_subscribers() or notify_fn_subscribers() of the
\* EventAsync over a kind with no registered member leaves that kind's
\* counter as it was at the call.  (EventAsync::notify_subscribers and
\* notify_fn_subscribers increment without looking at the collection.)
C14_AsyncEmptyKindNotCounted ==
    call.name \in NotifyCalls
    => /\ a_pre.subscribers = <<>> => a_times_subscribers_notified = a_pre.times[1]
       /\ a_pre.fn_subscribers = <<>> =>
             a_times_func_subscribers_notified = a_pre.times[2]

\* The place of a kind's counter in ATimes.
KindIndex == [subs |-> 1, fns |-> 2]

\* C15: in no state of a notify call of the EventAsync does a kind's counter
\* show the call's increment while a thread the call spawned for that kind is
\* still running or has panicked.  (The increment is the statement before
\* the join loop.)
C15_CountedOnlyAfterUnitsCompleted ==
    call.name \in NotifyCalls
    => \A i \in 1..Len(units) :
          units[i].st # "done"
          => ATimes[KindIndex[units[i].kind]] = a_pre.times[KindIndex[units[i].kind]]

\* What a notify() has invoked of one kind is the collection s walked from
\* its first entry on, one entry at a time (up to the entry where the call
\* panicked, if it did).
Delivered(kind, s, log) ==
    Invoked(kind, log) = SubSeq(Walk(kind, s), 1, Len(Invoked(kind, log)))

\* The handles of what a notify() has invoked of one kind are the first
\* entries of one of the registration orders.
InRegistrationOrder(kind, orders, log) ==
    \E r \in orders :
       Invoked(kind, log) = SubSeq(Walk(kind, r), 1, Len(Invoked(kind, log)))

\* C16 as stated: after any sequence of subscribe and unsubscribe calls,
\* notify() invokes the registered members of each kind one at a time in the
\* order in which they were registered.
C16_DeliveryInRegistrationOrder ==
    [][NotifyStep
       => /\ InRegistrationOrder("sub", registered.subs, invoked')
          /\ InRegistrationOrder("mut", registered.muts, invoked')
          /\ Delivered("fn", fn_subscribers, invoked')]_vars

\* The collection s once the entry at index i has been replaced by the last.
MoveLast(s, i) == [j \in 1..(Len(s) - 1) |-> IF j = i THEN s[Len(s)] ELSE s[j]]

\* The step is an unsubscribe (name) that removed from s an entry with two
\* or more entries after it.
Reorders(name, s) ==
    /\ op'.name = name /\ op'.outcome = "ok"
    /\ position(s, op'.arg) + 2 <= Len(s)

\* C16 amended: notify() invokes the members of each notified kind one at a
\* time in collection order, all of them when it returns.  unsubscribe puts
\* the last entry of the collection in the place of the removed one, so the
\* collection order is the registration order until an unsubscribe removes
\* an entry that has two or more entries after it, and no other call changes
\* the relative order of the registered entries.
C16_DeliveryInCollectionOrder ==
    [][/\ NotifyStep
          => /\ Delivered("sub", subscribers, invoked')
             /\ Delivered("mut", subscribers_mut, invoked')
             /\ Delivered("fn", fn_subscribers, invoked')
             /\ (op'.outcome = "ok" /\ SubsInScope)
                   => Len(Invoked("sub", invoked')) = Len(subscribers)
             /\ (op'.outcome = "ok" /\ MutsInScope)
                   => Len(Invoked("mut", invoked')) = Len(subscribers_mut)
             /\ (op'.outcome = "ok" /\ FnsInScope)
                   => Len(Invoked("fn", invoked')) = Len(fn_subscribers)
       /\ (op'.name = "unsubscribe" /\ op'.outcome = "ok")
          => subscribers' = MoveLast(subscribers, position(subscribers, op'.arg))
       /\ (op'.name = "unsubscribe_mut" /\ op'.outcome = "ok")
          => subscribers_mut' = MoveLast(subscribers_mut,
                                         position(subscribers_mut, op'.arg))
       /\ (subscribers \in registered.subs /\ ~Reorders("unsubscribe", subscribers))
          => subscribers' \in registered.subs'
       /\ (subscribers_mut \in registered.muts
           /\ ~Reorders("unsubscribe_mut", subscribers_mut))
          => subscribers_mut' \in registered.muts']_vars

\* C16 witness: s1, s2, s3 subscribed in that order, s1 unsubscribed, and a
\* notify() has invoked s3 before s2.
C16_Witness ==
    /\ op.name = "notify" /\ op.outcome = "ok"
    /\ subscribers = <<"s3", "s2">>
    /\ registered.subs = {<<"s2", "s3">>}
    /\ Invoked("sub", invoked) = <<(<<"sub", "s3">>), (<<"sub", "s2">>)>>

\* The index of the first entry of handle h in collection s.
FirstEntry(s, h) ==
    CHOOSE i \in 1..Len(s) : s[i] = h /\ \A j \in 1..(i - 1) : s[j] # h

\* An unsubscribe of handle h on collection s, giving s2: with no entry of h
\* it fails and s stays; with one or more it succeeds and removes exactly
\* the first entry of h (the last entry takes its place), so h has one
\* entry fewer and every other handle the entries it had.
RemovesOneEntry(s, h, outcome, s2, handles_) ==
    /\ Count(s, h) = 0 => (outcome = "panic" /\ s2 = s)
    /\ Count(s, h) >= 1 =>
          /\ outcome = "ok"
          /\ s2 = MoveLast(s, FirstEntry(s, h))
          /\ Count(s2, h) = Count(s, h) - 1
          /\ \A x \in handles_ \ {h} : Count(s2, x) = Count(s, x)

\* C17: subscribe never rejects a duplicate: every subscribe, subscribe_mut
\* and EventAsync subscribe pushes one more entry, also of a handle that is
\* registered already; a notify() that returns invokes a subscriber once per
\* entry (twice when registered twice); an unsubscribe removes exactly one
\* entry, the first match, and fails only when the handle has no entry: of
\* a handle registered twice the first and the second unsubscribe succeed
\* and the third fails.
C17_DuplicatesAreEntries ==
    [][/\ op'.name = "subscribe"
          => (op'.outcome = "ok" /\ subscribers' = Append(subscribers, op'.arg))
       /\ op'.name = "subscribe_mut"
          => (op'.outcome = "ok" /\ subscribers_mut' = Append(subscribers_mut, op'.arg))
       /\ (call'.name = "subscribe" /\ a_calls' = a_calls + 1)
          => (call'.outcome = "ok" /\ a_subscribers' = Append(a_subscribers, call'.arg))
       /\ (NotifyReturned /\ SubsInScope)
          => \A h \in Subs : Count(invoked', <<"sub", h>>) = Count(subscribers, h)
       /\ (NotifyReturned /\ MutsInScope)
          => \A h \in Muts : Count(invoked', <<"mut", h>>) = Count(subscribers_mut, h)
       /\ (pc = "join" /\ pc' = "idle" /\ call.name = "notify_subscribers")
          => \A h \in ASubs :
                Cardinality({i \in 1..Len(units) : units[i].id = h})
                   = Count(a_subscribers, h)
       /\ op'.name = "unsubscribe"
          => RemovesOneEntry(subscribers, op'.arg, op'.outcome, subscribers', Subs)
       /\ op'.name = "unsubscribe_mut"
          => RemovesOneEntry(subscribers_mut, op'.arg, op'.outcome,
                             subscribers_mut', Muts)
       /\ (call'.name = "unsubscribe" /\ a_calls' = a_calls + 1)
          => RemovesOneEntry(a_subscribers, call'.arg, call'.outcome,
                             a_subscribers', ASubs)]_vars

\* C17 witness: s1 was subscribed twice and unsubscribed once: the
\* unsubscribe has succeeded and s1 still has its other entry, with two
\* more calls left for the second and the third unsubscribe.
C17_Witness ==
    /\ op = [name |-> "unsubscribe", arg |-> "s1", outcome |-> "ok"]
    /\ subscribers = <<"s1">>
    /\ calls = 3

\* C18: the configuration of an Event and of an EventAsync is never changed:
\* after every subscribe, subscribe_mut, subscribe_as_fn, unsubscribe,
\* unsubscribe_mut and notify call, and every step inside one, both fields
\* have the value given at construction.
C18_ConfigFixedAtConstruction ==
    [][config' = config /\ a_config' = a_config]_vars

\* C18 witness: an Event constructed with a configuration other than the
\* default has been through subscribe calls and a notify() that cleared.
C18_Witness ==
    /\ op.name = "notify" /\ op.outcome = "ok"
    /\ calls = MaxCalls
    /\ invoked # <<>>
    /\ config = [subscribers_to_notify |-> "OnlySubscribers",
                 clear_subscribers_after_notification |-> "OnlyFuncSubscribers"]

\* C19: when notify_subscribers() / notify_fn_subscribers() of the
\* EventAsync has returned, whatever the configuration, the threads it
\* spawned are one per member of its own kind and none of the other kind,
\* the other kind's counter is as it was, and both collections hold what
\* they held before the call: the clear policy was not applied.
C19_NarrowCallsBypassConfig ==
    (AReturned /\ call.name \in DOMAIN NarrowKind)
    => LET kind == NarrowKind[call.name]
           other == IF kind = "subs" THEN "fns" ELSE "subs" IN
       /\ a_subscribers = a_pre.subscribers
       /\ a_fn_subscribers = a_pre.fn_subscribers
       /\ \A i \in 1..Len(units) : units[i].kind = kind
       /\ Len(units) = Len(members(kind))
       /\ ATimes[KindIndex[other]] = a_pre.times[KindIndex[other]]

\* C19 witness: on an EventAsync configured to notify closures only and to
\* clear everything, notify_subscribers() has returned after its one thread
\* for the one subscriber; subscriber and closure are still registered.
C19_Witness ==
    /\ AReturned /\ call.name = "notify_subscribers"
    /\ a_config = [subscribers_to_notify |-> "OnlyFnSubscribers",
                   clear_subscribers_after_notification |-> "All"]
    /\ Len(a_subscribers) = 1 /\ Len(a_fn_subscribers) = 1
    /\ Len(units) = 1

\* C20: the clearing at the end of a notify() that returns empties the
\* collection its policy names and leaves the others with exactly their
\* contents: OnlySubscribers the read-only collection, OnlySubscribersMut
\* the mutating one, OnlyFuncSubscribers the closures, None no collection;
\* on the Event and, for the policies it handles, on the EventAsync.
C20_ClearTouchesOnlyNamed ==
    [][/\ (NotifyReturned /\ config.clear_subscribers_after_notification # "All")
          => LET c == config.clear_subscribers_after_notification IN
             /\ subscribers' = IF c = "OnlySubscribers" THEN <<>> ELSE subscribers
             /\ subscribers_mut' =
                   IF c = "OnlySubscribersMut" THEN <<>> ELSE subscribers_mut
             /\ fn_subscribers' =
                   IF c = "OnlyFuncSubscribers" THEN <<>> ELSE fn_subscribers
       /\ (/\ pc = "join" /\ pc' = "idle" /\ call.name = "notify"
           /\ a_config.clear_subscribers_after_notification # "All")
          => LET c == a_config.clear_subscribers_after_notification IN
             /\ a_subscribers' = IF c = "OnlySubscribers" THEN <<>> ELSE a_subscribers
             /\ a_fn_subscribers' =
                   IF c = "OnlyFuncSubscribers" THEN <<>> ELSE a_fn_subscribers]_vars

\* C20 witness: a notify() with Clear::OnlySubscribersMut has run over a
\* read-only subscriber, a mutating subscriber and a closure, and only the
\* mutating collection is empty.
C20_Witness ==
    /\ op.name = "notify" /\ op.outcome = "ok"
    /\ config.clear_subscribers_after_notification = "OnlySubscribersMut"
    /\ Invoked("mut", invoked) # <<>>
    /\ subscribers_mut = <<>>
    /\ subscribers # <<>> /\ fn_subscribers # <<>>

\* An unsubscribe of instance h on collection s, giving s2, seen from an
\* instance h2 that is another instance equal to h in value: with h not
\* registered the call fails and s stays, also when h2 is registered; with h
\* registered the call succeeds and h2 keeps every entry it had.
MatchesByIdentity(s, h, outcome, s2, h2) ==
    /\ Count(s, h) = 0 => (outcome = "panic" /\ s2 = s)
    /\ Count(s, h) >= 1 => (outcome = "ok" /\ Count(s2, h2) = Count(s, h2))

\* C21: unsubscribe, unsubscribe_mut (Event) and unsubscribe (EventAsync)
\* match the handle by instance identity only: for two distinct instances of
\* equal contents, unsubscribing the one that is not registered fails even
\* though the other is registered, and unsubscribing the registered one
\* never removes the other.
C21_MatchByIdentityNotByValue ==
    [][/\ op'.name = "unsubscribe"
          => \A h2 \in Subs \ {op'.arg} :
                Contents[h2] = Contents[op'.arg]
                => MatchesByIdentity(subscribers, op'.arg, op'.outcome,
                                     subscribers', h2)
       /\ op'.name = "unsubscribe_mut"
          => \A h2 \in Muts \ {op'.arg} :
                (Contents[h2] = Contents[op'.arg] /\ field[h2] = field[op'.arg])
                => MatchesByIdentity(subscribers_mut, op'.arg, op'.outcome,
                                     subscribers_mut', h2)
       /\ (call'.name = "unsubscribe" /\ a_calls' = a_calls + 1)
          => \A h2 \in ASubs \ {call'.arg} :
                Contents[h2] = Contents[call'.arg]
                => MatchesByIdentity(a_subscribers, call'.arg, call'.outcome,
                                     a_subscribers', h2)]_vars

\* C21 witness: with s1 registered, the unsubscribe of s2, an instance
\* equal to s1 in value, has failed and s1 is still registered.
C21_Witness ==
    /\ op = [name |-> "unsubscribe", arg |-> "s2", outcome |-> "panic"]
    /\ Contents["s1"] = Contents["s2"]
    /\ subscribers = <<"s1">>

\* The counter an Event x shows after a cycle over collection coll when it
\* showed n before.
After(n, coll) == IF coll = <<>> THEN n ELSE n + 1

\* C22: the Events of one struct are independent.  Every call made through
\* one field (subscribe*, unsubscribe*, the generated on_<field>) leaves the
\* Event in every other field exactly as it was, collections and counters,
\* also when the same subscriber is registered with both; and on_<field>()
\* is that field's notify(): it invokes the members registered with that
\* field's Event and counts on that Event's counters.
C22_EventsIndependent ==
    [][l_calls' = l_calls + 1
       => LET f == l_op'.event IN
          /\ \A g \in EventFields \ {f} : logic'[g] = logic[g]
          /\ l_op'.name = "on"
             => /\ l_op'.outcome = "ok"
                /\ l_op'.invoked = Walk("sub", logic[f].subscribers)
                                     \o Walk("mut", logic[f].subscribers_mut)
                                     \o Walk("fn", logic[f].fn_subscribers)
                /\ logic'[f].times_subscribers_notified =
                      After(logic[f].times_subscribers_notified, logic[f].subscribers)
                /\ logic'[f].times_subscribers_mut_notified =
                      After(logic[f].times_subscribers_mut_notified,
                            logic[f].subscribers_mut)
                /\ logic'[f].times_func_subscribers_notified =
                      After(logic[f].times_func_subscribers_notified,
                            logic[f].fn_subscribers)]_vars

\* C22 witness: s1 is registered with both Events; on_process_completed()
\* has notified it and cleared process_completed, and process_error still
\* holds s1 with its counter at 0.
C22_Witness ==
    /\ l_op.event = "process_completed" /\ l_op.name = "on"
    /\ l_op.invoked = <<(<<"sub", "s1">>)>>
    /\ logic["process_completed"].subscribers = <<>>
    /\ logic["process_completed"].times_subscribers_notified = 1
    /\ logic["process_error"].subscribers = <<"s1">>
    /\ logic["process_error"].times_subscribers_notified = 0

\* C23: EventAsync::notify() has a defined outcome for every value of
\* subscribers_to_notify and clear_subscribers_after_notification,
\* OnlySubscribersMut included, and when it has returned it has spawned
\* threads for exactly the kinds Event::notify() would notify among the two
\* the EventAsync owns (read-only subscribers, then closures) and has cleared
\* exactly the collections Event's clear policy names among those two.
\* (Neither match of event_async.rs has an arm for OnlySubscribersMut.)
C23_AsyncNotifyDispatchesAsEvent ==
    call.name = "notify"
    => LET n == a_config.subscribers_to_notify
           c == a_config.clear_subscribers_after_notification IN
       /\ call.outcome # "no_arm"
       /\ AReturned
          => /\ [i \in 1..Len(units) |-> units[i].id]
                   = (IF n \in {"All", "OnlySubscribers"}
                      THEN a_pre.subscribers ELSE <<>>)
                     \o (IF n \in {"All", "OnlyFnSubscribers"}
                         THEN a_pre.fn_subscribers ELSE <<>>)
             /\ a_subscribers = IF c \in {"All", "OnlySubscribers"}
                                THEN <<>> ELSE a_pre.subscribers
             /\ a_fn_subscribers = IF c \in {"All", "OnlyFuncSubscribers"}
                                   THEN <<>> ELSE a_pre.fn_subscribers

\* C24: the EventAsync takes mutating subscribers under exclusive access:
\* subscribe_mut of a lock-wrapped subscriber whose state is 10 is accepted,
\* and one notify_subscribers_mut() returns with the state at 20 and the
\* lock free.  The formula is what that needs first: both calls have a
\* defined outcome and come back to the caller.  (EventAsync has neither
\* method.)
C24_AsyncMutatingSubscriberUpdated ==
    call.name \in AsyncMutCalls => pc = "idle" /\ call.outcome = "ok"

\* The caller is inside a notify call of the EventAsync; a thread the call
\* spawned is still running.
InCall == pc \in {"spawn", "join"}
SomeUnitRunning == \E i \in 1..Len(units) : units[i].st = "running"

\* C25: under a scheduler that does not starve the caller, a notify call of
\* the EventAsync ends if and only if every thread it spawned ends: if again
\* and again no spawned thread is running, every call that was entered is
\* eventually left, and if from some point on a spawned thread runs forever,
\* the caller stays inside the call forever.  (join().unwrap() leaves the
\* call by a panic at the first thread that panicked, without waiting for
\* the threads after it.)
C25_CallEndsIffEveryUnitEnds ==
    /\ ([]<>(~SomeUnitRunning)) => (InCall ~> ~InCall)
    /\ (<>[]SomeUnitRunning) => <>[]InCall

\* C26: in every notify() of the Event that reaches the mutating kind, the
\* dispatcher never holds the RefMut of more than one mutating subscriber at
\* once; when the call is over it holds none, and after a call that returned
\* every registered mutating subscriber is free for the caller to borrow;
\* and when the caller holds no guard on a registered subscriber the call
\* returns with every subscriber updated once per entry it has in the
\* collection, so a handle registered twice is updated twice.
C26_OneGuardAtATime ==
    [][(NotifyStep /\ MutsInScope)
       => /\ guards'.most <= 1
          /\ guards'.now = {}
          /\ op'.outcome = "ok"
             => \A m \in Range(subscribers_mut) : held'[m] = "none"
          /\ (\A m \in Range(subscribers_mut) : held'[m] = "none")
             => /\ op'.outcome = "ok"
                /\ \A m \in Muts :
                      field'[m] = field[m] + Count(subscribers_mut, m) * UpdateDelta]_vars

\* C26 witness: a notify() has returned on an Event in which m1 is
\* registered twice and m2 once: m1 was updated twice, m2 once, one guard at
\* a time, and none is left.
C26_Witness ==
    /\ op.name = "notify" /\ op.outcome = "ok"
    /\ Count(subscribers_mut, "m1") = 2 /\ Count(subscribers_mut, "m2") = 1
    /\ field["m1"] = InitialField + 2 * UpdateDelta
    /\ field["m2"] = InitialField + UpdateDelta
    /\ guards = [now |-> {}, most |-> 1]
    /\ held = NoBorrow

\* C27: when notify() of the Event reaches a mutating subscriber on which a
\* guard is held elsewhere, the cycle stops there and nothing is retried:
\* the updates the call made are those of the read-only subscribers (when in
\* scope) and of the mutating entries before the held one, each once, and
\* no closure; the mutating and the closure counter are as before, and the
\* clear policy has not run: the three collections are as before the call.
C27_FailureAbortsCycle ==
    [][(NotifyStep /\ MutsInScope /\ FirstHeld(held') > 0)
       => /\ op'.outcome = "panic"
          /\ invoked' = (IF SubsInScope THEN Walk("sub", subscribers) ELSE <<>>)
                         \o Walk("mut", SubSeq(subscribers_mut, 1,
                                               FirstHeld(held') - 1))
          /\ times_subscribers_mut_notified' = times_subscribers_mut_notified
          /\ times_func_subscribers_notified' = times_func_subscribers_notified
          /\ subscribers' = subscribers
          /\ subscribers_mut' = subscribers_mut
          /\ fn_subscribers' = fn_subscribers]_vars

\* C27 witness: on an Event that notifies and clears every kind, notify()
\* has panicked at m2, held by the caller, after the read-only subscriber
\* and m1; the closure was not called and nothing was cleared.
C27_Witness ==
    /\ op.name = "notify" /\ op.outcome = "panic"
    /\ config = [subscribers_to_notify |-> "All",
                 clear_subscribers_after_notification |-> "All"]
    /\ Len(subscribers) = 1 /\ Len(fn_subscribers) = 1
    /\ subscribers_mut = <<"m1", "m2">>
    /\ held["m2"] # "none"
    /\ invoked = <<(<<"sub", subscribers[1]>>), (<<"mut", "m1">>)>>
    /\ times_func_subscribers_notified = 0

\* C28: an unsubscribe / unsubscribe_mut of the Event, or an unsubscribe of
\* the EventAsync, with a handle that has no entry in the collection it
\* searches ends in a panic and changes nothing: every collection holds the
\* same entries in the same order and every counter its value (and no
\* subscriber's state has changed).
C28_FailedUnsubscribeChangesNothing ==
    [][/\ (/\ calls' = calls + 1
           /\ \/ (op'.name = "unsubscribe" /\ op'.arg \notin Range(subscribers))
              \/ (op'.name = "unsubscribe_mut"
                     /\ op'.arg \notin Range(subscribers_mut)))
          => /\ op'.outcome = "panic"
             /\ UNCHANGED <<subscribers, subscribers_mut, fn_subscribers,
                            Times, field, config>>
       /\ (call'.name = "unsubscribe" /\ a_calls' = a_calls + 1
              /\ call'.arg \notin Range(a_subscribers))
          => /\ call'.outcome = "panic"
             /\ UNCHANGED <<a_subscribers, a_fn_subscribers, ATimes, a_config>>]_vars

\* C28 witness: unsubscribe(s2) has panicked on an Event that holds s1, a
\* mutating subscriber and a closure and has notified them once; all three
\* are still registered and counted.
C28_Witness ==
    /\ op = [name |-> "unsubscribe", arg |-> "s2", outcome |-> "panic"]
    /\ subscribers = <<"s1">>
    /\ Len(subscribers_mut) = 1 /\ Len(fn_subscribers) = 1
    /\ Times = <<1, 1, 1>>

\* C29: with subscribers_to_notify = All the kinds are notified one after
\* another.  A notify() of the Event that returns has made its updates in
\* the order: every read-only subscriber, every mutating subscriber, every
\* closure, whatever it cleared afterwards.  In a notify() of the EventAsync
\* every thread of a subscriber was spawned before every thread of a closure
\* and has ended, joined, when a closure's thread exists; the collections are
\* as at the call until the call returns, and when it has returned every
\* member of both kinds has had its thread and every thread has ended.
C29_KindsOneAfterAnother ==
    [][/\ (NotifyReturned /\ config.subscribers_to_notify = "All")
          => invoked' = Walk("sub", subscribers) \o Walk("mut", subscribers_mut)
                        \o Walk("fn", fn_subscribers)
       /\ (call'.name = "notify" /\ a_config.subscribers_to_notify = "All")
          => /\ \A i, j \in 1..Len(units') :
                   (units'[i].kind = "subs" /\ units'[j].kind = "fns")
                   => (i < j /\ units'[i].st = "done")
             /\ pc' # "idle"
                => /\ a_subscribers' = a_pre'.subscribers
                   /\ a_fn_subscribers' = a_pre'.fn_subscribers
             /\ pc' = "idle"
                => /\ \A i \in 1..Len(units') : units'[i].st = "done"
                   /\ [i \in 1..Len(units') |-> units'[i].id]
                         = a_pre'.subscribers \o a_pre'.fn_subscribers]_vars

\* C29 witness: a notify() of an EventAsync that notifies and clears every
\* kind has returned; the two subscribers' threads come before the
\* closure's, all have ended, and both collections are cleared.
C29_Witness ==
    /\ AReturned /\ call.name = "notify"
    /\ a_config = [subscribers_to_notify |-> "All",
                   clear_subscribers_after_notification |-> "All"]
    /\ Len(units) = 3
    /\ units[1].kind = "subs" /\ units[2].kind = "subs" /\ units[3].kind = "fns"
    /\ a_subscribers = <<>> /\ a_fn_subscribers = <<>>

====
